---- MODULE Spec2Model ----
(***************************************************************************)
(* Model of the application kernel of NTRLI SuperAPK (src/app_kernel.py):  *)
(* the AppKernel singleton, its boot sequence over the three subsystems,   *)
(* the shutdown hooks, subsystem access, invariant enforcement and error   *)
(* reporting.  Every public operation of the kernel is one action; the     *)
(* record `last` is the caller's view of the most recent call (which       *)
(* operation, with which arguments, how it ended and what it returned).    *)
(***************************************************************************)
EXTENDS Integers, Sequences, FiniteSets, TLC

(* ------------------------------ bounds -------------------------------- *)
MaxHooks   == 2   \* longest list of registered shutdown hooks explored
MaxErrors  == 1   \* error_count is explored up to this value

(* ------------------------------ inputs -------------------------------- *)
None       == "None"
\* messages are tuples of their parts; the empty tuple stands for "no
\* message": last_error is None, no exception escaped
NoMessage  == <<>>
BootOrder  == <<"state", "network", "monitoring">>   \* the order boot() uses
Subsystems == {"state", "network", "monitoring"}
QueryNames == Subsystems \cup {"nonexistent"}
\* shutdown hooks are numbered in the order of their first registration
HookIds    == 1..MaxHooks
Msgs       == {"Test violation message"}
Components == {"test_component"}
Errors     == {"Test error"}
\* what importing and constructing one subsystem does: it works, the module
\* is missing (ImportError), or it fails with any other exception
Outcomes   == {"ok", "absent", "fatal"}
\* the two bindings of ai_log the module can end up with at import time
LogImpls   == {"ai_core", "fallback"}

VARIABLES
    ai_log_impl,       \* which ai_log/ai_exception app_kernel.py bound
    instance,          \* AppKernel._instance (0 is None, else the object)
    initialized,       \* AppKernel._initialized
    previous,          \* the AppKernel object created most recently (0: none yet)
    subsystems,        \* self._subsystems, a dict
    subsystem_status,  \* self._subsystem_status, a dict
    shutdown_hooks,    \* self._shutdown_hooks
    kernel_state,      \* self._kernel_state
    last,              \* the caller's view of the most recent call
    features,          \* a KernelFeatures object and the dicts around it
    auth,              \* an AuthManager object and its clock
    offline,           \* an OfflineManager object and its clock
    cache              \* a MemoryCache object

vars == <<ai_log_impl, instance, initialized, previous, subsystems,
          subsystem_status, shutdown_hooks, kernel_state, last,
          features, auth, offline, cache>>

kernel_fields == <<subsystems, subsystem_status, shutdown_hooks, kernel_state>>

\* the objects next to the kernel; no kernel operation touches them
components == <<features, auth, offline, cache>>

\* a component that the run at hand does not construct
NotConstructed == "not constructed"

(* --------------------------- Python dicts ----------------------------- *)
\* a dict is a function from its keys to its values; the order in which
\* the keys were inserted is left out
EmptyDict == [k \in {} |-> None]

DictKeys(d) == DOMAIN d

DictHas(d, k) == k \in DOMAIN d

DictGet(d, k) == d[k]

\* d.get(k, default)
DictGetDefault(d, k, default) == IF DictHas(d, k) THEN DictGet(d, k) ELSE default

\* d[k] = v
DictSet(d, k, v) == [x \in DOMAIN d \cup {k} |-> IF x = k THEN v ELSE d[x]]

(* ------------------------------ logging ------------------------------- *)
\* ai_log called with nargs positional arguments: modules.ai_core.ai_log
\* takes (scope, message) only, the fallback takes (tag, msg, level="INFO")
ai_log(nargs) ==
    IF ai_log_impl = "ai_core" /\ nargs > 2 THEN "TypeError" ELSE None

\* before: what the caller could observe just before the call (recorded by
\* shutdown only, None elsewhere); boot_raised: whether the caller has seen
\* a boot() of the live kernel object raise (kept from call to call, set by
\* boot, forgotten when a new object is constructed)
Result(op, arg, outcome, ret) ==
    [op |-> op, arg |-> arg, outcome |-> outcome, ret |-> ret, before |-> None,
     boot_raised |-> last.boot_raised]

Init ==
    /\ ai_log_impl \in LogImpls
    /\ instance = 0
    /\ initialized = FALSE
    /\ previous = 0
    /\ subsystems = EmptyDict
    /\ subsystem_status = EmptyDict
    /\ shutdown_hooks = <<>>
    /\ kernel_state = [booted |-> FALSE, error_count |-> 0, last_error |-> NoMessage]
    /\ last = [op |-> "none", arg |-> None, outcome |-> "ok", ret |-> None,
               before |-> None, boot_raised |-> FALSE]
    /\ features = NotConstructed
    /\ auth = NotConstructed
    /\ offline = NotConstructed
    /\ cache = NotConstructed

(* --------------------------- construction ----------------------------- *)
\* faulty variant: the singleton check is missing
new_raises_NoCheck(inst) == FALSE

\* __new__: the singleton check
new_raises(inst) == inst /= 0

\* object.__new__: a new object, another one than the object created before
\* it (which the caller may still hold); two names are enough to tell them
\* apart
new_object(prev) == IF prev = 1 THEN 2 ELSE 1

\* what the kernel object before this one had been through, as far as its
\* fields show: it was booted, it had recorded an error, it had hooks
Used(kstate, hooks) ==
    [booted |-> kstate.booted, errors |-> kstate.error_count > 0,
     hooks |-> Len(hooks) > 0]

\* AppKernel(): __new__ then, when __new__ returned, __init__
construct ==
    /\ IF new_raises(instance)
       THEN /\ last' = Result("construct", None, "KernelInvariantViolation", None)
            /\ UNCHANGED <<instance, initialized, previous, kernel_fields>>
       ELSE /\ instance' = new_object(previous)
            /\ previous' = instance'
            /\ IF initialized
               THEN UNCHANGED <<initialized, kernel_fields>>
               ELSE /\ subsystems' = EmptyDict
                    /\ subsystem_status' = EmptyDict
                    /\ shutdown_hooks' = <<>>
                    /\ kernel_state' = [booted |-> FALSE, error_count |-> 0,
                                        last_error |-> NoMessage]
                    /\ initialized' = TRUE
            /\ last' = [Result("construct", None, "ok", instance')
                           EXCEPT !.boot_raised = FALSE,
                                  !.before = Used(kernel_state, shutdown_hooks)]
    /\ UNCHANGED <<components, ai_log_impl>>

\* faulty variant: the reset forgets the class attribute _initialized, so
\* that the next __init__ returns at once
reset_for_testing_KeepsInitialized ==
    /\ instance' = 0
    /\ UNCHANGED initialized
    /\ last' = Result("reset_for_testing", None, "ok", None)
    /\ UNCHANGED <<components, ai_log_impl, previous, kernel_fields>>

reset_for_testing ==
    /\ instance' = 0
    /\ initialized' = FALSE
    /\ last' = Result("reset_for_testing", None, "ok", None)
    /\ UNCHANGED <<components, ai_log_impl, previous, kernel_fields>>

\* faulty variant: get_instance hands out the object created most recently,
\* live or not
get_instance_result_Stale(inst, prev) ==
    [outcome |-> "ok", ret |-> prev]

\* get_instance(): what the class method does with cls._instance
get_instance_result(inst, prev) ==
    IF inst = 0
    THEN [outcome |-> "KernelInvariantViolation", ret |-> None]
    ELSE [outcome |-> "ok", ret |-> inst]

\* AppKernel.get_instance() and the module-level get_kernel(), which only
\* calls it; a class method, callable with no kernel live
get_instance ==
    /\ LET r == get_instance_result(instance, previous)
       IN last' = Result("get_instance", None, r.outcome, r.ret)
    /\ UNCHANGED <<components, ai_log_impl, instance, initialized, previous, kernel_fields>>

(* ------------------------------- boot --------------------------------- *)
\* str(e) of the exception a failing constructor raises, and of the
\* TypeError raised by a three-argument call of the two-argument ai_log
CtorError(name) == <<"constructor failed: ", name>>
LogTypeError    == <<"ai_log() takes 2 positional arguments but 3 were given">>

\* one _init_<subsystem>() method; st is [subs, status, exc, tried] where exc
\* is the str() of the exception that escapes the method (NoMessage when it
\* returns) and tried is the set of subsystems attempted so far
init_subsystem(name, cls, outcome, st) ==
    LET tried == st.tried \cup {name}
        obj   == [class |-> cls]
    IN
    CASE outcome = "ok" ->
           [subs   |-> DictSet(st.subs, name, obj),
            status |-> DictSet(st.status, name, TRUE),
            exc    |-> NoMessage,          \* ai_log("kernel", "... initialized")
            tried  |-> tried]
      [] outcome = "absent" ->
           \* except ImportError: ai_log(..., "WARNING") comes first
           IF ai_log(3) /= None
           THEN [subs |-> st.subs, status |-> st.status,
                 exc |-> LogTypeError, tried |-> tried]
           ELSE [subs |-> st.subs,
                 status |-> DictSet(st.status, name, FALSE),
                 exc |-> NoMessage, tried |-> tried]
      [] OTHER ->
           [subs |-> st.subs, status |-> st.status,
            exc |-> CtorError(name), tried |-> tried]

init_state_manager(outcome, st) ==
    init_subsystem("state", "AppState", outcome, st)

init_network(outcome, st) ==
    init_subsystem("network", "NetworkManager", outcome, st)

init_monitoring(outcome, st) ==
    init_subsystem("monitoring", "MonitoringManager", outcome, st)

\* faulty variant: an exception does not end the try block, the remaining
\* subsystems are still initialized
boot_sequence_NoAbort(plan, st0) ==
    LET s1 == init_state_manager(plan["state"], st0)
        s2 == init_network(plan["network"], s1)
        s3 == init_monitoring(plan["monitoring"], s2)
        first == IF s1.exc /= NoMessage THEN s1.exc
                 ELSE IF s2.exc /= NoMessage THEN s2.exc ELSE s3.exc
    IN [s3 EXCEPT !.exc = first]

\* the body of the try block of boot(): the three calls in order, the first
\* exception ends the block
boot_sequence(plan, st0) ==
    LET s1 == init_state_manager(plan["state"], st0)
        s2 == IF s1.exc = NoMessage THEN init_network(plan["network"], s1) ELSE s1
        s3 == IF s2.exc = NoMessage THEN init_monitoring(plan["monitoring"], s2) ELSE s2
    IN s3

\* what the three constructors would do; what follows a fatal failure is
\* never looked at, and is fixed to keep one plan per behaviour
Plans ==
    {p \in [Subsystems -> Outcomes] :
        \A i, j \in 1..Len(BootOrder) :
            (i < j /\ p[BootOrder[i]] = "fatal") => p[BootOrder[j]] = "fatal"}

\* the part of the plan that boot() got to see
Seen(plan, tried) ==
    [n \in Subsystems |-> IF n \in tried THEN plan[n] ELSE "skipped"]

\* faulty variant: the failure of the try block goes unnoticed
boot_failed_Never(exc) == FALSE

\* boot(): whether the try block ended in the except branch
boot_failed(exc) == exc /= NoMessage

boot(plan) ==
    /\ instance /= 0
    /\ LET st == boot_sequence(plan,
                    [subs |-> subsystems, status |-> subsystem_status,
                     exc |-> NoMessage, tried |-> {}])
       IN /\ subsystems' = st.subs
          /\ subsystem_status' = st.status
          /\ IF ~boot_failed(st.exc)
             THEN /\ kernel_state' = [kernel_state EXCEPT !.booted = TRUE]
                  /\ last' = Result("boot", Seen(plan, st.tried), "ok", TRUE)
             ELSE /\ kernel_state.error_count < MaxErrors
                  /\ kernel_state' =
                        [kernel_state EXCEPT
                            !.last_error = st.exc,
                            !.error_count = kernel_state.error_count + 1]
                  /\ last' = [Result("boot", Seen(plan, st.tried),
                                     "KernelInvariantViolation",
                                     <<"FATAL: Kernel boot failed: ">> \o st.exc)
                                EXCEPT !.boot_raised = TRUE]
    /\ UNCHANGED <<components, ai_log_impl, instance, initialized, previous, shutdown_hooks>>

(* ------------------------------ shutdown ------------------------------ *)
\* faulty variant: the hooks are run in registration order
reversed_Forward(seq) == seq

\* reversed(seq)
reversed(seq) == [k \in 1..Len(seq) |-> seq[Len(seq) + 1 - k]]

\* faulty variant: the dict is not cleared
clear_Noop(d) == d

\* dict.clear()
clear(d) == EmptyDict

\* faulty variant: the handler re-raises
hook_handler_Reraise(exc) == exc

\* except Exception as e: ai_exception("kernel", e) -- what is left of the
\* exception exc of a hook after the handler (None: nothing propagates)
hook_handler(exc) == None

\* for hook in order: each hook is called in turn; raising is the set of
\* positions (in order) whose hook raises an Exception; the result is
\* [calls, exc], the hooks invoked so far and the exception that escapes
RECURSIVE run_hooks(_, _, _, _)
run_hooks(order, i, calls, raising) ==
    IF i > Len(order) THEN [calls |-> calls, exc |-> None]
    ELSE LET called == Append(calls, order[i])
             exc    == IF i \in raising THEN hook_handler("Exception") ELSE None
         IN IF exc /= None
            THEN [calls |-> called, exc |-> exc]
            ELSE run_hooks(order, i + 1, called, raising)

Available(status) == {n \in DictKeys(status) : DictGet(status, n)}

\* faulty variant: shutdown puts the whole _kernel_state back to its
\* constructed value, the error counter included
shutdown_ResetsState(raising) ==
    /\ instance /= 0
    /\ LET r == run_hooks(reversed(shutdown_hooks), 1, <<>>, raising)
           before == [booted |-> kernel_state.booted,
                      serving |-> Available(subsystem_status) /= {}]
       IN /\ subsystems' = clear(subsystems)
          /\ subsystem_status' = clear(subsystem_status)
          /\ kernel_state' = [booted |-> FALSE, error_count |-> 0,
                              last_error |-> NoMessage]
          /\ last' = [Result("shutdown", raising, "ok", r.calls)
                         EXCEPT !.before = before]
    /\ UNCHANGED <<components, ai_log_impl, instance, initialized, previous, shutdown_hooks>>

\* raising: the positions, counted in calling order, of the hooks that raise
shutdown(raising) ==
    /\ instance /= 0
    /\ LET r == run_hooks(reversed(shutdown_hooks), 1, <<>>, raising)
           before == [booted |-> kernel_state.booted,
                      serving |-> Available(subsystem_status) /= {}]
       IN IF r.exc /= None
          THEN /\ last' = [Result("shutdown", raising, r.exc, r.calls)
                              EXCEPT !.before = before]
               /\ UNCHANGED <<subsystems, subsystem_status, kernel_state>>
          ELSE /\ subsystems' = clear(subsystems)
               /\ subsystem_status' = clear(subsystem_status)
               /\ kernel_state' = [kernel_state EXCEPT !.booted = FALSE]
               /\ last' = [Result("shutdown", raising, "ok", r.calls)
                              EXCEPT !.before = before]
    /\ UNCHANGED <<components, ai_log_impl, instance, initialized, previous, shutdown_hooks>>

register_shutdown_hook(hook) ==
    /\ instance /= 0
    /\ Len(shutdown_hooks) < MaxHooks
    /\ hook <= Cardinality({shutdown_hooks[i] : i \in 1..Len(shutdown_hooks)}) + 1
    /\ shutdown_hooks' = Append(shutdown_hooks, hook)
    /\ last' = Result("register_shutdown_hook", hook, "ok", None)
    /\ UNCHANGED <<components, ai_log_impl, instance, initialized, previous,
                   subsystems, subsystem_status, kernel_state>>

(* -------------------------- subsystem access -------------------------- *)
\* faulty variant: the message lists the names that have a status entry
NotInitializedMessage_StatusKeys(name, subs, status) ==
    <<"Subsystem '", name, "' is not initialized. Available: ", DictKeys(status)>>

\* the message of SubsystemNotInitializedError; its last part is
\* list(self._subsystems.keys())
NotInitializedMessage(name, subs, status) ==
    <<"Subsystem '", name, "' is not initialized. Available: ", DictKeys(subs)>>

\* [exc, ret] of self.get_subsystem(name)
get_subsystem_result(name, subs, status) ==
    IF ~DictHas(subs, name)
    THEN [exc |-> "SubsystemNotInitializedError",
          ret |-> NotInitializedMessage(name, subs, status)]
    ELSE [exc |-> "ok", ret |-> DictGet(subs, name)]

get_subsystem(name) ==
    /\ instance /= 0
    /\ LET r == get_subsystem_result(name, subsystems, subsystem_status)
       IN last' = Result("get_subsystem", name, r.exc, r.ret)
    /\ UNCHANGED <<components, ai_log_impl, instance, initialized, previous, kernel_fields>>

\* faulty variant: an unknown name counts as available
is_available_DefaultTrue(name, status) == DictGetDefault(status, name, TRUE)

is_available(name, status) == DictGetDefault(status, name, FALSE)

is_subsystem_available(name) ==
    /\ instance /= 0
    /\ last' = Result("is_subsystem_available", name, "ok",
                      is_available(name, subsystem_status))
    /\ UNCHANGED <<components, ai_log_impl, instance, initialized, previous, kernel_fields>>

(* ------------------------ invariant enforcement ----------------------- *)
InvariantMessage(message) == <<"INVARIANT VIOLATION: ", message>>

\* the body of assert_invariant on the kernel state kstate: how the call
\* ends, what it raises and the kernel state it leaves
assert_invariant_effect(condition, message, kstate) ==
    IF condition
    THEN [outcome |-> "ok", ret |-> None, kstate |-> kstate]
    ELSE IF ai_log(3) /= None     \* ai_log("kernel", error_msg, "FATAL")
    THEN [outcome |-> "TypeError", ret |-> LogTypeError, kstate |-> kstate]
    ELSE [outcome |-> "KernelInvariantViolation",
          ret     |-> InvariantMessage(message),
          kstate  |-> [kstate EXCEPT
                          !.error_count = kstate.error_count + 1,
                          !.last_error = InvariantMessage(message)]]

assert_invariant(condition, message) ==
    /\ instance /= 0
    /\ LET r == assert_invariant_effect(condition, message, kernel_state)
       IN /\ r.kstate.error_count <= MaxErrors
          /\ kernel_state' = r.kstate
          /\ last' = Result("assert_invariant", <<condition, message>>,
                            r.outcome, r.ret)
    /\ UNCHANGED <<components, ai_log_impl, instance, initialized, previous,
                   subsystems, subsystem_status, shutdown_hooks>>

BootedMessage == "Kernel must be booted before use"

\* assert_booted(): assert_invariant on the booted flag
assert_booted ==
    /\ instance /= 0
    /\ LET r == assert_invariant_effect(kernel_state.booted, BootedMessage,
                                        kernel_state)
       IN /\ r.kstate.error_count <= MaxErrors
          /\ kernel_state' = r.kstate
          /\ last' = Result("assert_booted", None, r.outcome, r.ret)
    /\ UNCHANGED <<components, ai_log_impl, instance, initialized, previous,
                   subsystems, subsystem_status, shutdown_hooks>>

(* ----------------------------- diagnostics ---------------------------- *)
\* faulty variant: the labels of the two availabilities are exchanged
status_label_Swapped(status) == IF status THEN "UNAVAILABLE" ELSE "OK"

status_label(status) == IF status THEN "OK" ELSE "UNAVAILABLE"

\* the dict health_snapshot returns, without its clock readings (uptime_sec,
\* uptime_human, timestamp)
health_record(kstate, status) ==
    [booted      |-> kstate.booted,
     error_count |-> kstate.error_count,
     last_error  |-> kstate.last_error,
     subsystems  |-> [name \in DictKeys(status) |->
                         status_label(DictGet(status, name))]]

health_snapshot ==
    /\ instance /= 0
    /\ last' = Result("health_snapshot", None, "ok",
                      health_record(kernel_state, subsystem_status))
    /\ UNCHANGED <<components, ai_log_impl, instance, initialized, previous, kernel_fields>>

(* --------------------------- error handling --------------------------- *)
\* faulty variant: the handler re-raises
monitoring_handler_Reraise(exc) == exc

\* except Exception: pass -- what is left of an exception raised while
\* forwarding to monitoring (None: nothing propagates)
monitoring_handler(exc) == None

\* the block "if self.is_subsystem_available('monitoring'): try: ..." ;
\* track is what MonitoringManager.track_error does when it is reached;
\* the result is [exc, forwarded]
forward_to_monitoring(track, subs, status) ==
    IF is_available("monitoring", status)
    THEN LET r == get_subsystem_result("monitoring", subs, status)   \* self.monitoring
             raised == IF r.exc /= "ok" THEN r.exc
                       ELSE IF track = "raises" THEN "Exception" ELSE None
         IN IF raised /= None
            THEN [exc |-> monitoring_handler(raised), forwarded |-> "failed"]
            ELSE [exc |-> None, forwarded |-> "tracked"]
    ELSE [exc |-> None, forwarded |-> "not forwarded"]

ReportMessage(component, error) == <<component, ": ", error>>

report_error(component, error, track) ==
    /\ instance /= 0
    /\ kernel_state.error_count < MaxErrors
    /\ kernel_state' =
          [kernel_state EXCEPT
              !.error_count = kernel_state.error_count + 1,
              !.last_error = ReportMessage(component, error)]
    /\ LET f == forward_to_monitoring(track, subsystems, subsystem_status)
       IN last' = Result("report_error", <<component, error>>,
                         IF f.exc = None THEN "ok" ELSE f.exc, f.forwarded)
    /\ UNCHANGED <<components, ai_log_impl, instance, initialized, previous,
                   subsystems, subsystem_status, shutdown_hooks>>

Next ==
    \/ construct
    \/ reset_for_testing
    \/ \E plan \in Plans : boot(plan)
    \/ \E raising \in SUBSET (1..Len(shutdown_hooks)) : shutdown(raising)
    \/ \E hook \in HookIds : register_shutdown_hook(hook)
    \/ \E name \in QueryNames : get_subsystem(name)
    \/ \E name \in QueryNames : is_subsystem_available(name)
    \/ \E condition \in BOOLEAN, message \in Msgs : assert_invariant(condition, message)
    \/ assert_booted
    \/ health_snapshot
    \/ get_instance
    \/ \E component \in Components, error \in Errors, track \in {"accepts", "raises"} :
           report_error(component, error, track)

Spec == Init /\ [][Next]_vars

(* ===================== the objects next to the kernel ================== *)
\* each of them is explored in a specification of its own, in which no
\* kernel is constructed
kernel_vars == <<ai_log_impl, instance, initialized, previous, kernel_fields>>

NoKernel ==
    /\ ai_log_impl = "fallback"
    /\ instance = 0
    /\ initialized = FALSE
    /\ previous = 0
    /\ subsystems = EmptyDict
    /\ subsystem_status = EmptyDict
    /\ shutdown_hooks = <<>>
    /\ kernel_state = [booted |-> FALSE, error_count |-> 0, last_error |-> NoMessage]

\* the caller's view of the call that constructed the object
Constructed(op, arg) ==
    [op |-> op, arg |-> arg, outcome |-> "ok", ret |-> None,
     before |-> None, boot_raised |-> FALSE]

\* del d[k]
DictDel(d, k) == [x \in DOMAIN d \ {k} |-> d[x]]

(* --------------------------- KernelFeatures --------------------------- *)
\* feature_flags.py
FEATURE_ANALYTICS == FALSE
FEATURE_STRIPE    == FALSE
FEATURE_NETWORK   == FALSE
FEATURE_DEBUG     == FALSE

\* the dict literal of build_feature_snapshot
BuiltFlags ==
    ("FEATURE_ANALYTICS" :> FEATURE_ANALYTICS) @@ ("FEATURE_STRIPE" :> FEATURE_STRIPE)
        @@ ("FEATURE_NETWORK" :> FEATURE_NETWORK) @@ ("FEATURE_DEBUG" :> FEATURE_DEBUG)

\* the names a caller puts into the dicts it owns, and the names queried
CallerNames == {"FEATURE_DEBUG", "UNKNOWN_FLAG"}
FlagQueries == DOMAIN BuiltFlags \cup CallerNames
CallerDicts == UNION {[D -> BOOLEAN] : D \in SUBSET CallerNames}

\* the dict objects: the one handed to the constructor, the one the
\* constructor makes, the one the latest dump() returned
GivenDict   == 1
OwnDict     == 2
DumpedDict  == 3
NoDict      == 0     \* no dict object: dump() has not been called

\* faulty variant: no copy is made, the same dict object is passed on
dict_copy_Alias(heap, src, fresh) == [ref |-> src, heap |-> heap]

\* dict(d): a new dict object with the items of d; heap maps the dict
\* objects to their items, fresh is the new object
dict_copy(heap, src, fresh) ==
    [ref |-> fresh, heap |-> [heap EXCEPT ![fresh] = heap[src]]]

\* KernelFeatures(flags): flags is the dict object GivenDict; held tells
\* whether the caller keeps a reference to it; given is what the dict held
\* when it was handed over
KernelFeatures_init(flags, held) ==
    LET c == dict_copy([r \in {GivenDict, OwnDict, DumpedDict} |->
                           IF r = GivenDict THEN flags ELSE EmptyDict],
                       GivenDict, OwnDict)
    IN [dicts |-> c.heap, _flags |-> c.ref, held |-> held, dumped |-> NoDict,
        given |-> flags]

\* self._flags as it is now
own_flags(f) == f.dicts[f._flags]

\* faulty variant: a name that is not in the flags counts as enabled
enabled_result_FailOpen(name, flags) == DictGetDefault(flags, name, TRUE)

enabled_result(name, flags) == DictGetDefault(flags, name, FALSE)

InitFeatures ==
    /\ NoKernel
    /\ \E flags \in CallerDicts :
          /\ features = KernelFeatures_init(flags, TRUE)
          /\ last = Constructed("KernelFeatures", flags)
    /\ auth = NotConstructed
    /\ offline = NotConstructed
    /\ cache = NotConstructed

KernelFeatures(flags) ==
    /\ features' = KernelFeatures_init(flags, TRUE)
    /\ last' = Result("KernelFeatures", flags, "ok", None)
    /\ UNCHANGED <<kernel_vars, auth, offline, cache>>

build_feature_snapshot ==
    /\ features' = KernelFeatures_init(BuiltFlags, FALSE)
    /\ last' = Result("build_feature_snapshot", None, "ok", None)
    /\ UNCHANGED <<kernel_vars, auth, offline, cache>>

enabled(name) ==
    /\ last' = Result("enabled", name, "ok", enabled_result(name, own_flags(features)))
    /\ UNCHANGED <<kernel_vars, features, auth, offline, cache>>

dump ==
    /\ LET c == dict_copy(features.dicts, features._flags, DumpedDict)
       IN /\ features' = [features EXCEPT !.dicts = c.heap, !.dumped = c.ref]
          /\ last' = Result("dump", None, "ok", c.ref)
    /\ UNCHANGED <<kernel_vars, auth, offline, cache>>

\* the dict objects the caller has a reference to
CallerRefs(f) ==
    (IF f.held THEN {GivenDict} ELSE {}) \cup ({f.dumped} \ {NoDict})

\* the caller writes d[name] = value into a dict it holds
caller_sets(ref, name, value) ==
    /\ ref \in CallerRefs(features)
    /\ features' = [features EXCEPT !.dicts[ref] = DictSet(@, name, value)]
    /\ last' = Result("caller_sets", <<ref, name, value>>, "ok", None)
    /\ UNCHANGED <<kernel_vars, auth, offline, cache>>

\* the caller deletes d[name] from a dict it holds
caller_deletes(ref, name) ==
    /\ ref \in CallerRefs(features)
    /\ DictHas(features.dicts[ref], name)
    /\ features' = [features EXCEPT !.dicts[ref] = DictDel(@, name)]
    /\ last' = Result("caller_deletes", <<ref, name>>, "ok", None)
    /\ UNCHANGED <<kernel_vars, auth, offline, cache>>

NextFeatures ==
    \/ \E flags \in CallerDicts : KernelFeatures(flags)
    \/ build_feature_snapshot
    \/ \E name \in FlagQueries : enabled(name)
    \/ dump
    \/ \E ref \in {GivenDict, OwnDict, DumpedDict}, name \in CallerNames, value \in BOOLEAN :
           caller_sets(ref, name, value)
    \/ \E ref \in {GivenDict, OwnDict, DumpedDict}, name \in CallerNames :
           caller_deletes(ref, name)

SpecFeatures == InitFeatures /\ [][NextFeatures]_vars

(* ----------------------------- AuthManager ---------------------------- *)
MaxSessions == 2 \* sessions held at a time
MaxClock  == 8   \* the clock is explored up to this reading

SessionDays   == 7                      \* timedelta(days=7)
AdminUsername == "Sir_NTRLI_II"
AdminPassword == "NTRLI_ADMIN_2024"
Usernames     == {AdminUsername, "testuser", "nonexistentuser"}
Registrable   == {"testuser"}           \* the names register_user is tried with
Passwords     == {AdminPassword, "testpass123"}
NoToken       == <<>>                   \* the None that login returns as token
NoSession     == <<>>                   \* the None that validate_session returns
InvalidToken  == <<"invalid_token">>    \* a token no login has returned

\* hashlib.sha256(...).hexdigest(): distinct inputs give distinct digests
sha256(text) == <<"sha256">> \o text

_hash_password(password) == sha256(<<password>>)

\* the session token of login: the digest of username and clock reading
session_token(username, now) == sha256(<<username, now>>)

\* the state of a new AuthManager with no user and session file on disk:
\* _ensure_admin_user has created the admin.  now is the reading of
\* datetime.now(), counted in days; two calls may get the same reading.
AuthManager_init ==
    [users    |-> (AdminUsername :> [password_hash |-> _hash_password(AdminPassword),
                                     role |-> "admin"]),
     sessions |-> EmptyDict,
     now      |-> 0]

InitAuth ==
    /\ NoKernel
    /\ auth = AuthManager_init
    /\ last = Constructed("AuthManager", None)
    /\ features = NotConstructed
    /\ offline = NotConstructed
    /\ cache = NotConstructed

time_passes ==
    /\ auth.now < MaxClock
    /\ auth' = [auth EXCEPT !.now = auth.now + 1]
    /\ last' = Result("time_passes", None, "ok", None)
    /\ UNCHANGED <<kernel_vars, features, offline, cache>>

register_user(username, password) ==
    /\ IF DictHas(auth.users, username)
       THEN /\ last' = Result("register_user", <<username, password>>, "ok",
                              <<FALSE, "Username already exists">>)
            /\ UNCHANGED auth
       ELSE /\ auth' = [auth EXCEPT !.users =
                          DictSet(@, username,
                                  [password_hash |-> _hash_password(password),
                                   role |-> "user"])]
            /\ last' = Result("register_user", <<username, password>>, "ok",
                              <<TRUE, "Registration successful">>)
    /\ UNCHANGED <<kernel_vars, features, offline, cache>>

\* faulty variant: the password is not compared
password_matches_Any(user, password) == TRUE

\* login: user["password_hash"] != password_hash, negated
password_matches(user, password) == user.password_hash = _hash_password(password)

\* [success, token, message, sessions] of login
login_result(username, password, users, sessions, now) ==
    IF ~DictHas(users, username)
    THEN [success |-> FALSE, token |-> NoToken, message |-> "Invalid credentials",
          sessions |-> sessions]
    ELSE IF ~password_matches(DictGet(users, username), password)
    THEN [success |-> FALSE, token |-> NoToken, message |-> "Invalid credentials",
          sessions |-> sessions]
    ELSE LET token == session_token(username, now)
         IN [success |-> TRUE, token |-> token, message |-> "Login successful",
             sessions |-> DictSet(sessions, token,
                                  [username |-> username,
                                   role     |-> DictGet(users, username).role,
                                   expires  |-> now + SessionDays])]

login(username, password) ==
    /\ LET r == login_result(username, password, auth.users, auth.sessions, auth.now)
       IN /\ Cardinality(DictKeys(r.sessions)) <= MaxSessions
          /\ auth' = [auth EXCEPT !.sessions = r.sessions]
          /\ last' = Result("login", <<username, password>>, "ok",
                            [success |-> r.success, token |-> r.token,
                             message |-> r.message])
    /\ UNCHANGED <<kernel_vars, features, offline, cache>>

\* [valid, session, sessions] of validate_session
validate_session_result(session_token_, sessions, now) ==
    IF ~DictHas(sessions, session_token_)
    THEN [valid |-> FALSE, session |-> NoSession, sessions |-> sessions]
    ELSE IF now > DictGet(sessions, session_token_).expires
    THEN [valid |-> FALSE, session |-> NoSession,
          sessions |-> DictDel(sessions, session_token_)]
    ELSE [valid |-> TRUE, session |-> DictGet(sessions, session_token_),
          sessions |-> sessions]

validate_session(token) ==
    /\ LET r == validate_session_result(token, auth.sessions, auth.now)
       IN /\ auth' = [auth EXCEPT !.sessions = r.sessions]
          /\ last' = Result("validate_session", token, "ok",
                            [valid |-> r.valid, session |-> r.session])
    /\ UNCHANGED <<kernel_vars, features, offline, cache>>

\* faulty variant: logout answers but leaves the session in place
logout_sessions_Keep(token, sessions) == sessions

\* logout: the sessions it leaves
logout_sessions(token, sessions) ==
    IF DictHas(sessions, token) THEN DictDel(sessions, token) ELSE sessions

logout(token) ==
    /\ auth' = [auth EXCEPT !.sessions = logout_sessions(token, auth.sessions)]
    /\ last' = Result("logout", token, "ok", DictHas(auth.sessions, token))
    /\ UNCHANGED <<kernel_vars, features, offline, cache>>

\* the tokens a caller presents: those of the sessions (it got them from
\* login), the one it presented in the call before, and one it made up
Presented ==
    DictKeys(auth.sessions) \cup {InvalidToken}
        \cup (IF last.op \in {"logout", "validate_session"} THEN {last.arg} ELSE {})

NextAuth ==
    \/ time_passes
    \/ \E username \in Registrable, password \in Passwords :
           register_user(username, password)
    \/ \E username \in Usernames, password \in Passwords : login(username, password)
    \/ \E token \in Presented : validate_session(token)
    \/ \E token \in Presented : logout(token)

SpecAuth == InitAuth /\ [][NextAuth]_vars

(* ---------------------------- OfflineManager --------------------------- *)
MaxQueue  == 3   \* operations queued
MaxMillis == 1   \* the millisecond clock is explored up to this reading

OpTypes    == {"data_sync", "news_fetch"}
OpData     == {("sync_type" :> "full"), ("sync_type" :> "partial")}
Priorities == {5, 10}
NoOperation == <<>>                     \* the None of get_operation_status

\* f"{op_type}_{int(time.time() * 1000)}"
operation_id(op_type, millis) == <<op_type, "_", millis>>

\* a new OfflineManager whose queue the caller has emptied; now is
\* time.time() in milliseconds, and two calls may fall into the same one
InitOffline ==
    /\ NoKernel
    /\ offline = [pending_operations |-> <<>>, is_online |-> TRUE, now |-> 0]
    /\ last = Constructed("OfflineManager", None)
    /\ features = NotConstructed
    /\ auth = NotConstructed
    /\ cache = NotConstructed

millisecond_passes ==
    /\ offline.now < MaxMillis
    /\ offline' = [offline EXCEPT !.now = offline.now + 1]
    /\ last' = Result("millisecond_passes", None, "ok", None)
    /\ UNCHANGED <<kernel_vars, features, auth, cache>>

\* the operation dict that queue_operation builds
new_operation(op_type, data, priority, now) ==
    [id |-> operation_id(op_type, now), type |-> op_type, data |-> data,
     priority |-> priority, queued_at |-> now, attempts |-> 0,
     last_attempt |-> None, status |-> "pending"]

queue_operation(op_type, data, priority) ==
    /\ Len(offline.pending_operations) < MaxQueue
    /\ LET operation == new_operation(op_type, data, priority, offline.now)
       IN /\ offline' = [offline EXCEPT !.pending_operations = Append(@, operation)]
          /\ last' = Result("queue_operation", <<op_type, data, priority>>, "ok",
                            operation.id)
    /\ UNCHANGED <<kernel_vars, features, auth, cache>>

pending_count(ops) ==
    Cardinality({i \in 1..Len(ops) : ops[i].status = "pending"})

get_pending_operations_count ==
    /\ last' = Result("get_pending_operations_count", None, "ok",
                      pending_count(offline.pending_operations))
    /\ UNCHANGED <<kernel_vars, features, auth, offline, cache>>

\* get_operation_status: the first operation of the list with this id
operation_status(operation_id_, ops) ==
    LET hits == {i \in 1..Len(ops) : ops[i].id = operation_id_}
    IN IF hits = {}
       THEN [status |-> None, op |-> NoOperation]
       ELSE LET first == CHOOSE i \in hits : \A j \in hits : i <= j
            IN [status |-> ops[first].status, op |-> ops[first]]

get_operation_status(operation_id_) ==
    /\ last' = Result("get_operation_status", operation_id_, "ok",
                      operation_status(operation_id_, offline.pending_operations))
    /\ UNCHANGED <<kernel_vars, features, auth, offline, cache>>

NextOffline ==
    \/ millisecond_passes
    \/ \E op_type \in OpTypes, data \in OpData, priority \in Priorities :
           queue_operation(op_type, data, priority)
    \/ get_pending_operations_count
    \/ \E op_type \in OpTypes, millis \in 0..MaxMillis :
           get_operation_status(operation_id(op_type, millis))

SpecOffline == InitOffline /\ [][NextOffline]_vars

(* ----------------------------- MemoryCache ----------------------------- *)
MaxItems == 2   \* max_items is drawn from 1..MaxItems
MaxSets  == 4   \* set calls counted by the insertion clock

CacheKeys   == {"a", "b", "c"}
CacheValues == {1, 2}

\* a dict is the sequence of its <<key, value>> items in iteration order,
\* which for a Python dict is the order in which the keys were inserted
ItemKeys(items) == {items[i][1] : i \in 1..Len(items)}

\* items[key] = value: a key already there keeps its place
ItemsSet(items, key, value) ==
    IF key \in ItemKeys(items)
    THEN [i \in 1..Len(items) |-> IF items[i][1] = key THEN <<key, value>> ELSE items[i]]
    ELSE Append(items, <<key, value>>)

\* items.get(key, default)
ItemsGet(items, key, default) ==
    IF key \in ItemKeys(items)
    THEN LET i == CHOOSE j \in 1..Len(items) : items[j][1] = key IN items[i][2]
    ELSE default

\* self._data.pop(next(iter(self._data)))
pop_first_Newest(items) == SubSeq(items, 1, Len(items) - 1)
pop_first(items) == Tail(items)

\* MemoryCache(max_items); inserted_at and sets are history: the reading of
\* the set counter at which each stored key last entered the dict
MemoryCache_init(max_items) ==
    [max_items |-> max_items, _data |-> <<>>,
     inserted_at |-> [k \in CacheKeys |-> 0], sets |-> 0]

InitCache ==
    /\ NoKernel
    /\ \E max_items \in 1..MaxItems :
          /\ cache = MemoryCache_init(max_items)
          /\ last = Constructed("MemoryCache", max_items)
    /\ features = NotConstructed
    /\ auth = NotConstructed
    /\ offline = NotConstructed

\* MemoryCache.set (clear is already the name of dict.clear above)
cache_set(key, value) ==
    /\ cache.sets < MaxSets
    /\ LET kept  == IF Len(cache._data) >= cache.max_items
                    THEN pop_first(cache._data) ELSE cache._data
           items == ItemsSet(kept, key, value)
       IN /\ cache' = [cache EXCEPT
                 !._data = items,
                 !.sets = @ + 1,
                 !.inserted_at = [k \in CacheKeys |->
                     IF k \notin ItemKeys(items) THEN 0
                     ELSE IF k = key /\ k \notin ItemKeys(kept) THEN cache.sets + 1
                     ELSE @[k]]]
          /\ last' = [Result("set", <<key, value>>, "ok", None)
                         EXCEPT !.before = ItemKeys(cache._data)]
    /\ UNCHANGED <<kernel_vars, features, auth, offline>>

\* MemoryCache.get
cache_get(key) ==
    /\ last' = Result("get", key, "ok", ItemsGet(cache._data, key, None))
    /\ UNCHANGED <<kernel_vars, features, auth, offline, cache>>

\* MemoryCache.clear
cache_clear ==
    /\ cache' = [cache EXCEPT !._data = <<>>,
                              !.inserted_at = [k \in CacheKeys |-> 0]]
    /\ last' = Result("clear", None, "ok", None)
    /\ UNCHANGED <<kernel_vars, features, auth, offline>>

NextCache ==
    \/ \E key \in CacheKeys, value \in CacheValues : cache_set(key, value)
    \/ \E key \in CacheKeys : cache_get(key)
    \/ cache_clear

SpecCache == InitCache /\ [][NextCache]_vars

(* ======================== properties of the kernel ===================== *)
error_count == kernel_state.error_count
last_error  == kernel_state.last_error
booted      == kernel_state.booted

Pos(n) == CHOOSE i \in 1..Len(BootOrder) : BootOrder[i] = n

\* C1: constructing a kernel while an instance is live raises
\* KernelInvariantViolation and leaves the live instance in place;
\* constructing when none is live (initially, after reset_for_testing)
\* succeeds and makes the new object the live instance.
C1_Singleton ==
    [][ last'.op = "construct" =>
          IF instance /= 0
          THEN /\ last'.outcome = "KernelInvariantViolation"
               /\ instance' = instance
               /\ UNCHANGED kernel_fields
          ELSE /\ last'.outcome = "ok"
               /\ instance' /= 0
               /\ instance' = last'.ret ]_vars

\* a second construction was refused on a kernel built after a reset
C1_Witness ==
    /\ last.op = "construct"
    /\ last.outcome = "KernelInvariantViolation"
    /\ instance = 2

\* C2: the hooks observed during shutdown() are the registered hooks in
\* reverse registration order, one call per registration.
C2_ReverseOrder ==
    last.op = "shutdown" =>
        LET n == Len(shutdown_hooks)
        IN /\ Len(last.ret) = n
           /\ \A i \in 1..n : last.ret[i] = shutdown_hooks[n + 1 - i]

C2_Witness ==
    /\ last.op = "shutdown"
    /\ Len(shutdown_hooks) >= 2
    /\ shutdown_hooks[1] /= shutdown_hooks[2]

\* C3: after a successful boot() a subsystem is available iff its
\* construction succeeded (not available when it was absent); a name
\* becomes available only through boot(), so on a new kernel and before any
\* boot every name is unavailable; a name without status entry is
\* unavailable and the query never raises.
C3_StatusAfterBoot ==
    [][ /\ (last'.op = "boot" /\ last'.outcome = "ok") =>
              \A n \in Subsystems :
                  /\ last'.arg[n] = "ok" => is_available(n, subsystem_status') = TRUE
                  /\ last'.arg[n] = "absent" => is_available(n, subsystem_status') = FALSE
        /\ (last'.op = "construct" /\ last'.outcome = "ok") =>
              \A n \in QueryNames : is_available(n, subsystem_status') = FALSE
        /\ \A n \in QueryNames :
              (is_available(n, subsystem_status') = TRUE
                  /\ is_available(n, subsystem_status) = FALSE) => last'.op = "boot"
        /\ \A n \in QueryNames :
              ~DictHas(subsystem_status', n) => is_available(n, subsystem_status') = FALSE
        /\ last'.op = "is_subsystem_available" =>
              /\ last'.outcome = "ok"
              /\ last'.ret = is_available(last'.arg, subsystem_status') ]_vars

\* a boot succeeded with one subsystem built and another one absent
C3_Witness ==
    /\ last.op = "boot"
    /\ last.outcome = "ok"
    /\ \E n, m \in Subsystems : last.arg[n] = "ok" /\ last.arg[m] = "absent"

\* C4: when a constructor fails with something else than absence, boot()
\* raises KernelInvariantViolation, the later subsystems are not attempted
\* and their registry and status entries are left as they were (none on a
\* new kernel), error_count grows by exactly 1, last_error is the failure,
\* and an unbooted kernel stays unbooted.
C4_FatalBoot ==
    [][ \A n \in Subsystems :
          (last'.op = "boot" /\ last'.arg[n] = "fatal") =>
            /\ last'.outcome = "KernelInvariantViolation"
            /\ \A m \in Subsystems :
                  Pos(m) > Pos(n) =>
                     /\ last'.arg[m] = "skipped"
                     /\ DictHas(subsystem_status', m) = DictHas(subsystem_status, m)
                     /\ DictHas(subsystems', m) = DictHas(subsystems, m)
                     /\ DictHas(subsystem_status, m) =>
                           DictGet(subsystem_status', m) = DictGet(subsystem_status, m)
            /\ error_count' = error_count + 1
            /\ last_error' = CtorError(n)
            /\ ~booted => ~booted' ]_vars

\* the state manager was built, then the network constructor failed
C4_Witness ==
    /\ last.op = "boot"
    /\ last.outcome = "KernelInvariantViolation"
    /\ last.arg["state"] = "ok"
    /\ last.arg["network"] = "fatal"
    /\ ~DictHas(subsystem_status, "monitoring")
    /\ ~booted

\* C5: boot() attempts state, network, monitoring in this order; an absent
\* implementation marks the status false and boot goes on; when no
\* constructor fails fatally boot() returns true, booted is true and all
\* three names have a status entry.
C5_SoftFailureBoot ==
    (last.op = "boot" /\ \A n \in Subsystems : last.arg[n] /= "fatal") =>
        /\ last.outcome = "ok"
        /\ booted
        /\ \A n \in Subsystems :
              /\ last.arg[n] /= "skipped"
              /\ DictHas(subsystem_status, n)
              /\ DictGet(subsystem_status, n) = (last.arg[n] = "ok")

\* C6: assert_invariant(True, msg) does not raise and leaves error_count
\* and last_error alone; assert_invariant(False, msg) raises
\* KernelInvariantViolation with msg in its message, adds exactly 1 to
\* error_count and sets last_error.
C6_AssertInvariant ==
    [][ last'.op = "assert_invariant" =>
          IF last'.arg[1]
          THEN /\ last'.outcome = "ok"
               /\ UNCHANGED kernel_state
          ELSE /\ last'.outcome = "KernelInvariantViolation"
               /\ \E i \in 1..Len(last'.ret) : last'.ret[i] = last'.arg[2]
               /\ error_count' = error_count + 1
               /\ last_error' = InvariantMessage(last'.arg[2]) ]_vars

\* C7: get_subsystem(name) returns the registered object, and for an
\* unregistered name raises SubsystemNotInitializedError with the
\* registered names in its message; it changes nothing in the kernel.
C7_GetSubsystem ==
    [][ last'.op = "get_subsystem" =>
          /\ IF DictHas(subsystems, last'.arg)
             THEN /\ last'.outcome = "ok"
                  /\ last'.ret = DictGet(subsystems, last'.arg)
             ELSE /\ last'.outcome = "SubsystemNotInitializedError"
                  /\ last'.ret[2] = last'.arg
                  /\ last'.ret[4] = DictKeys(subsystems)
          /\ UNCHANGED <<instance, initialized, kernel_fields>> ]_vars

\* the lookup failed while other names were registered and a name with a
\* false status entry was not
C7_Witness ==
    /\ last.op = "get_subsystem"
    /\ last.outcome = "SubsystemNotInitializedError"
    /\ DictKeys(subsystems) /= {}
    /\ DictKeys(subsystems) /= DictKeys(subsystem_status)

\* C8: after shutdown() the registry and the status map are empty and
\* booted is false: no name is available and get_subsystem raises for
\* every name.
C8_ShutdownClears ==
    last.op = "shutdown" =>
        /\ DictKeys(subsystems) = {}
        /\ DictKeys(subsystem_status) = {}
        /\ ~booted
        /\ \A n \in QueryNames :
              /\ is_available(n, subsystem_status) = FALSE
              /\ get_subsystem_result(n, subsystems, subsystem_status).exc
                    = "SubsystemNotInitializedError"

\* shutdown of a booted kernel with registered, available subsystems
C8_Witness ==
    /\ last.op = "shutdown"
    /\ last.before.booted
    /\ last.before.serving

\* C9: whichever hooks raise, shutdown() returns normally, every registered
\* hook has been invoked, the registry is cleared and booted is false.
C9_RaisingHooks ==
    last.op = "shutdown" =>
        /\ last.outcome = "ok"
        /\ Len(last.ret) = Len(shutdown_hooks)
        /\ \A h \in HookIds :
              Cardinality({i \in 1..Len(last.ret) : last.ret[i] = h})
                 = Cardinality({i \in 1..Len(shutdown_hooks) : shutdown_hooks[i] = h})
        /\ DictKeys(subsystems) = {}
        /\ DictKeys(subsystem_status) = {}
        /\ ~booted

\* the first hook called raised, another hook was still to be run, and
\* there were subsystems to clear
C9_Witness ==
    /\ last.op = "shutdown"
    /\ Len(shutdown_hooks) >= 2
    /\ 1 \in last.arg
    /\ last.before.serving

\* C10: report_error returns normally, adds exactly 1 to error_count and
\* sets last_error to "{component}: {error}", whether monitoring is
\* unavailable, accepts the error or raises; booted, the registry, the
\* status map and the hooks are unchanged.
C10_ReportError ==
    [][ last'.op = "report_error" =>
          /\ last'.outcome = "ok"
          /\ error_count' = error_count + 1
          /\ last_error' = <<last'.arg[1], ": ", last'.arg[2]>>
          /\ booted' = booted
          /\ UNCHANGED <<subsystems, subsystem_status, shutdown_hooks>>
          /\ last'.ret =
                IF is_available("monitoring", subsystem_status) = FALSE
                THEN "not forwarded"
                ELSE IF last'.ret = "tracked" THEN "tracked" ELSE "failed" ]_vars

\* monitoring was available and track_error raised
C10_Witness ==
    /\ last.op = "report_error"
    /\ last.ret = "failed"
    /\ is_available("monitoring", subsystem_status) = TRUE

\* C11: health_snapshot() is a pure read: on every kernel it returns
\* without raising, leaves booted, error_count, last_error, the registry,
\* the status map and the hooks as they were, and its booted, error_count,
\* last_error and per-subsystem fields are the kernel's current values
\* (booted false, 0 errors, no last error, no subsystem on a new kernel).
C11_HealthSnapshot ==
    [][ last'.op = "health_snapshot" =>
          /\ last'.outcome = "ok"
          /\ UNCHANGED <<instance, initialized, kernel_fields>>
          /\ last'.ret.booted = booted
          /\ last'.ret.error_count = error_count
          /\ last'.ret.last_error = last_error
          /\ DOMAIN last'.ret.subsystems = DictKeys(subsystem_status)
          /\ \A n \in DictKeys(subsystem_status) :
                last'.ret.subsystems[n] =
                    IF DictGet(subsystem_status, n) THEN "OK" ELSE "UNAVAILABLE"
          /\ (last.op = "construct" /\ last.outcome = "ok") =>
                /\ last'.ret.booted = FALSE
                /\ last'.ret.error_count = 0
                /\ last'.ret.last_error = NoMessage
                /\ DOMAIN last'.ret.subsystems = {} ]_vars

\* a snapshot of a booted kernel with an absent subsystem and an error
C11_Witness ==
    /\ last.op = "health_snapshot"
    /\ last.ret.booted
    /\ last.ret.error_count > 0
    /\ \E n, m \in DictKeys(subsystem_status) :
          last.ret.subsystems[n] = "OK" /\ last.ret.subsystems[m] = "UNAVAILABLE"

\* C12: get_instance() raises KernelInvariantViolation whenever no kernel
\* is live (before the first construction, after reset_for_testing) and
\* otherwise returns the live instance, which is the object the last
\* successful construction created; it changes nothing.
C12_GetInstance ==
    [][ last'.op = "get_instance" =>
          /\ UNCHANGED <<instance, initialized, previous, kernel_fields>>
          /\ IF instance = 0
             THEN last'.outcome = "KernelInvariantViolation"
             ELSE /\ last'.outcome = "ok"
                  /\ last'.ret = instance
                  /\ last'.ret = previous ]_vars

\* get_instance raised after a kernel had been constructed and reset
C12_Witness ==
    /\ last.op = "get_instance"
    /\ last.outcome = "KernelInvariantViolation"
    /\ previous /= 0

\* C13: assert_booted() raises KernelInvariantViolation exactly when booted
\* is false and then counts one error; when booted is true it returns
\* normally and changes nothing.
C13_AssertBooted ==
    [][ last'.op = "assert_booted" =>
          IF booted
          THEN /\ last'.outcome = "ok"
               /\ UNCHANGED <<instance, initialized, kernel_fields>>
          ELSE /\ last'.outcome = "KernelInvariantViolation"
               /\ error_count' = error_count + 1 ]_vars

\* C14: every name in the subsystem registry has status true in the status
\* map, in every reachable state.
C14_RegistryImpliesStatus ==
    \A n \in DictKeys(subsystems) :
        DictHas(subsystem_status, n) /\ DictGet(subsystem_status, n) = TRUE

\* C15: whenever boot() raises, the kernel is left unbooted with the error
\* recorded, in whatever state boot() was called.
C15_RaisingBootUnboots ==
    (last.op = "boot" /\ last.outcome = "KernelInvariantViolation") =>
        (~booted /\ error_count > 0 /\ last_error /= NoMessage)

\* C16: booted is false until a boot() has gone through all three
\* subsystems without a fatal exception since construction or since the
\* last shutdown(): a new kernel is unbooted, shutdown() leaves the kernel
\* unbooted, and the only step that turns booted from false to true is a
\* boot() that returns normally, having tried every subsystem with none
\* failing fatally.
C16_BootedOnlyByBoot ==
    [][ /\ (~booted /\ booted') =>
              /\ last'.op = "boot"
              /\ last'.outcome = "ok"
              /\ last'.ret = TRUE
              /\ \A n \in Subsystems : last'.arg[n] \in {"ok", "absent"}
        /\ (last'.op = "construct" /\ last'.outcome = "ok") => ~booted'
        /\ (last'.op = "shutdown" /\ last'.outcome = "ok") => ~booted' ]_vars

\* an unbooted kernel was booted although one subsystem was absent
C16_Witness ==
    /\ last.op = "boot"
    /\ last.outcome = "ok"
    /\ booted
    /\ last.arg["network"] = "absent"

\* C17: error_count of a kernel object never decreases: every step other
\* than the construction of a new object leaves it equal or larger.
C17_ErrorCountMonotone ==
    [][ ~(last'.op = "construct" /\ last'.outcome = "ok") =>
            error_count' >= error_count ]_vars

\* a kernel that had counted an error was shut down and kept its count
C17_Witness ==
    /\ last.op = "shutdown"
    /\ last.outcome = "ok"
    /\ error_count > 0

\* C18: after a successful boot(), no operation other than shutdown()
\* changes any entry of the status map, further boot() calls included.
C18_StatusReadOnly ==
    [][ (booted /\ last'.op /= "shutdown" /\ instance' = instance) =>
            subsystem_status' = subsystem_status ]_vars

\* C19: after shutdown() the list of shutdown hooks is empty, so that no
\* hook is invoked by a later shutdown().
C19_ShutdownDrainsHooks ==
    (last.op = "shutdown" /\ last.outcome = "ok") => Len(shutdown_hooks) = 0

\* C20: once boot() has raised on a kernel object, that object never
\* becomes booted again.
C20_FatalBootTerminal ==
    [][ (last.boot_raised /\ ~booted /\ instance' = instance) => ~booted' ]_vars

\* C21: the kernel offers a health-counter reset: on every kernel that has
\* counted an error some operation sets error_count to 0 and last_error to
\* none and leaves booted, the registry and the status map unchanged.
C21_ResetHealthCounters ==
    (instance /= 0 /\ error_count > 0) =>
        ENABLED ( /\ Next
                  /\ instance' = instance
                  /\ error_count' = 0
                  /\ last_error' = NoMessage
                  /\ booted' = booted
                  /\ UNCHANGED <<subsystems, subsystem_status>> )

\* C24: a kernel constructed after reset_for_testing() starts from the
\* initial state whatever the object before it had done: booted is false,
\* error_count 0, last_error none, registry and status map empty, no hook.
C24_FreshAfterReset ==
    [][ (last'.op = "construct" /\ last'.outcome = "ok") =>
          /\ booted' = FALSE
          /\ error_count' = 0
          /\ last_error' = NoMessage
          /\ DictKeys(subsystems') = {}
          /\ DictKeys(subsystem_status') = {}
          /\ Len(shutdown_hooks') = 0
          /\ last'.boot_raised = FALSE ]_vars

\* a second kernel was constructed after the first one, booted, with an
\* error recorded and a hook registered, had been reset
C24_Witness ==
    /\ last.op = "construct"
    /\ last.outcome = "ok"
    /\ last.ret /= 1
    /\ last.before.booted
    /\ last.before.errors
    /\ last.before.hooks
    /\ ~booted
    /\ error_count = 0

\* C27: a log call that raises does not abort the kernel operation nor
\* change its outcome: a boot whose subsystems are absent still completes
\* as a soft-failure boot and assert_invariant(False, msg) still raises
\* KernelInvariantViolation with error_count incremented.
C27_LogFailureHarmless ==
    [][ ai_log(3) /= None =>
          /\ (last'.op = "boot" /\ last'.arg["state"] = "absent") =>
                /\ last'.outcome = "ok"
                /\ booted'
                /\ DictGet(subsystem_status', "state") = FALSE
          /\ (last'.op = "assert_invariant" /\ last'.arg[1] = FALSE) =>
                /\ last'.outcome = "KernelInvariantViolation"
                /\ error_count' = error_count + 1
          /\ (last'.op = "shutdown") =>
                /\ last'.outcome = "ok"
                /\ DictKeys(subsystems') = {} ]_vars

\* C28: in every reachable kernel state and for every name,
\* get_subsystem(name) succeeds if and only if is_subsystem_available(name)
\* is true.
C28_GetIffAvailable ==
    instance /= 0 =>
        \A name \in QueryNames :
            (get_subsystem_result(name, subsystems, subsystem_status).exc = "ok")
                <=> (is_available(name, subsystem_status) = TRUE)

\* C29: a fatal boot is not rolled back: when boot() aborts, every
\* subsystem constructed earlier in that boot() is in the registry with
\* status true and get_subsystem returns it, while booted is false; and
\* this stays so until shutdown() (no operation but boot and shutdown
\* touches the registry, the status map or booted).
C29_NoRollback ==
    [][ /\ (last'.op = "boot" /\ last'.outcome = "KernelInvariantViolation") =>
              /\ \A n \in Subsystems :
                    last'.arg[n] = "ok" =>
                       /\ is_available(n, subsystem_status') = TRUE
                       /\ get_subsystem_result(n, subsystems',
                                               subsystem_status').exc = "ok"
              /\ ~booted'
        /\ (last.boot_raised /\ instance' = instance
                /\ last'.op \notin {"boot", "shutdown"}) =>
              /\ UNCHANGED <<subsystems, subsystem_status>>
              /\ booted' = booted ]_vars

(* ===================== properties of KernelFeatures ==================== *)
\* C22: enabled(name) is false for every name that was not in the flags
\* given at construction and is the given value for every name that was;
\* the snapshot that build_feature_snapshot() makes of the shipped
\* feature_flags answers false for every name.
C22_FailClosed ==
    [][ /\ last'.op = "enabled" =>
              IF DictHas(features.given, last'.arg)
              THEN last'.ret = DictGet(features.given, last'.arg)
              ELSE last'.ret = FALSE
        /\ last'.op = "build_feature_snapshot" =>
              \A name \in FlagQueries :
                  enabled_result(name, own_flags(features')) = FALSE ]_vars

\* a name the snapshot was not given was asked for and answered false,
\* although the caller has meanwhile put it, as true, into its own dict
C22_Witness ==
    /\ last.op = "enabled"
    /\ last.arg = "UNKNOWN_FLAG"
    /\ last.ret = FALSE
    /\ ~DictHas(features.given, "UNKNOWN_FLAG")
    /\ features.held
    /\ DictGetDefault(features.dicts[GivenDict], "UNKNOWN_FLAG", FALSE) = TRUE

\* C23: a snapshot is never mutated after construction: for every name
\* enabled(name) keeps its value as long as the snapshot lives, whatever the
\* caller does to the dict it passed to the constructor or to a dict that
\* dump() returned.
C23_NeverMutated ==
    [][ last'.op \notin {"KernelFeatures", "build_feature_snapshot"} =>
          \A name \in FlagQueries :
              enabled_result(name, own_flags(features'))
                  = enabled_result(name, own_flags(features)) ]_vars

\* the caller has changed both the dict it passed and a dumped dict, and
\* the snapshot was queried afterwards
C23_Witness ==
    /\ last.op = "enabled"
    /\ features.held
    /\ features.dumped /= NoDict
    /\ features.dicts[GivenDict] /= features.given
    /\ features.dicts[features.dumped] /= features.given
    /\ own_flags(features) = features.given

C26_IdIdentifiesOperation ==
    [][ last'.op = "queue_operation" =>
          LET ops == offline.pending_operations'
              got == operation_status(last'.ret, ops)
          IN /\ pending_count(ops) = pending_count(offline.pending_operations) + 1
             /\ got.status = "pending"
             /\ got.op = ops[Len(ops)]
             /\ got.op.type = last'.arg[1]
             /\ got.op.data = last'.arg[2]
             /\ got.op.priority = last'.arg[3] ]_vars

(* ====================== properties of MemoryCache ====================== *)
\* C30: with max_items >= 1 the cache never stores more than max_items
\* keys, and a key that a set removes is the one that entered the cache
\* earliest among the keys stored before the call.
C30_BoundedInsertionOrder ==
    [][ /\ cache.max_items >= 1
        /\ Len(cache._data) <= cache.max_items
        /\ Len(cache'._data) <= cache'.max_items
        /\ last'.op = "set" =>
              \A gone \in ItemKeys(cache._data) \ ItemKeys(cache'._data) :
                 \A k \in ItemKeys(cache._data) :
                    cache.inserted_at[gone] <= cache.inserted_at[k] ]_vars

\* a set on a full cache of two keys has removed one of them
C30_Witness ==
    /\ last.op = "set"
    /\ Cardinality(last.before) = 2
    /\ last.before \ ItemKeys(cache._data) /= {}
    /\ Len(cache._data) = cache.max_items

====
